---- MODULE Spec2Model ----
(***************************************************************************)
(* Model of UrlShortenerService (src/src/main.rs): the slug registry       *)
(* `slugs`, the click counters `stats`, and the three public operations    *)
(* handle_create_short_link, handle_redirect and get_stats.                *)
(***************************************************************************)
EXTENDS Naturals, Sequences, FiniteSets, TLC

\* ------------------------------------------------------------------------
\* Bounds and input sets
\* ------------------------------------------------------------------------

\* Largest redirect count of one slug that the model explores.
MaxRedirects == 2

\* Number of concurrent callers that the model explores.
NumThreads == 2

\* Slugs a caller supplies.  "aB3xY9z" is also a possible generator output,
\* so a user-supplied slug and a generated one can collide.
UserSlugs == {"my-awesome-slug", "aB3xY9z"}

\* Outputs of the random generator that the model explores: 7 alphanumeric
\* characters each.
Rnd7 == {"aB3xY9z", "Zq81kLm"}

AllSlugs == UserSlugs \cup Rnd7

\* URL strings a caller supplies; the last one has no scheme.
Urls == {"https://www.example.com/", "https://x.test/", "not a url"}

\* The strings of Urls that url::Url::parse accepts as absolute URLs.
ParseableUrls == {"https://www.example.com/", "https://x.test/"}

\* ------------------------------------------------------------------------
\* Data types
\* ------------------------------------------------------------------------

\* Option<Slug>
None == << >>
Some(s) == << s >>
OptSlugs == {None} \cup {Some(s) : s \in UserSlugs}

ShortLink(slug, url) == [slug |-> slug, url |-> url]

Stats(link, redirects) == [link |-> link, redirects |-> redirects]

\* Result<_, ShortenerError>, and the unwinding of a panic
Ok(v) == [tag |-> "Ok", val |-> v]
Err(e) == [tag |-> "Err", err |-> e]
Panic == [tag |-> "Panic"]

\* ------------------------------------------------------------------------
\* State
\* ------------------------------------------------------------------------

VARIABLES
    slugs,      \* HashMap<String, String>: slug -> url
    stats,      \* BTreeMap<String, u64>: slug -> redirect count
    log,        \* the events the service has recorded
    call,       \* the latest call: operation, arguments, outcome
    returned,   \* per slug, the ShortLinks that successful creations returned
    redirected, \* per slug, the number of redirects that returned Ok
    pc,         \* per concurrent caller, its position in create_short_link
    holder,     \* the caller that holds the `&mut self` borrow, or NoThread
    local       \* per concurrent caller, its arguments, locals and result

\* The state of the concurrent callers.
cvars == << pc, holder, local >>

vars == << slugs, stats, log, call, returned, redirected, pc, holder, local >>

Threads == 1 .. NumThreads

NoThread == 0

\* A caller that has not made a call yet.
NoCall == [sl |-> "", ret |-> [tag |-> "None"]]

\* ------------------------------------------------------------------------
\* Helpers of the handlers
\* ------------------------------------------------------------------------

\* HashMap::new / BTreeMap::new
EmptyMap == [k \in {} |-> ""]

\* HashMap::insert(k, v): adds the key or overwrites its value.
InsertReplacingAll(m, k, v) == [x \in {k} |-> v]
Insert(m, k, v) == [x \in (DOMAIN m) \cup {k} |-> IF x = k THEN v ELSE m[x]]

\* `*self.stats.entry(k).or_insert(0) += 1`
EntryIncFromOne(m, k) ==
    [x \in (DOMAIN m) \cup {k} |->
        IF x = k THEN (IF k \in DOMAIN m THEN m[k] ELSE 1) + 1 ELSE m[x]]
EntryIncDroppingOthers(m, k) ==
    [x \in {k} |-> (IF k \in DOMAIN m THEN m[k] ELSE 0) + 1]
EntryInc(m, k) ==
    [x \in (DOMAIN m) \cup {k} |->
        IF x = k THEN (IF k \in DOMAIN m THEN m[k] ELSE 0) + 1 ELSE m[x]]

\* Vurl::parse(&url.0): Ok for an absolute URL, Err otherwise.
VurlParse(u) == IF u \in ParseableUrls THEN "Ok" ELSE "Err"

\* `match slug { Some(s) => sl = s, None => sl = Slug(rnd7) }`
ResolveSlugIgnoringArg(slug, rnd7) == rnd7
ResolveSlugRetrying(slug, rnd7) ==
    IF slug # None
    THEN slug[1]
    ELSE IF rnd7 \in DOMAIN slugs /\ Rnd7 \ DOMAIN slugs # {}
         THEN CHOOSE r \in Rnd7 : r \notin DOMAIN slugs
         ELSE rnd7
ResolveSlug(slug, rnd7) == IF slug # None THEN slug[1] ELSE rnd7

\* `self.slugs.get(&sl.0)` is Some(_)
SlugTakenInStats(sl) == sl \in DOMAIN stats
SlugTakenNever(sl) == FALSE
SlugTaken(sl) == sl \in DOMAIN slugs

\* The candidate the generator produced: rnd7 when slug is None, nothing
\* when the caller supplied the slug (the None arm is not taken).
Generated(slug, rnd7) == IF slug = None THEN << rnd7 >> ELSE << >>

\* `match Vurl::parse(&url.0) { Ok(_) => match self.slugs.get(&sl.0) {..},
\* Err(_) => Err(InvalidUrl) }`: the value handle_create_short_link returns.
CreateOutcomeSlugFirst(url, sl) ==
    IF SlugTaken(sl)
    THEN Err("SlugAlreadyInUse")
    ELSE IF VurlParse(url) = "Ok"
         THEN Ok(ShortLink(sl, url))
         ELSE Err("InvalidUrl")
CreateOutcomeUniqueUrl(url, sl) ==
    IF VurlParse(url) = "Ok"
    THEN IF SlugTaken(sl) \/ (\E o \in DOMAIN slugs : slugs[o] = url)
         THEN Err("SlugAlreadyInUse")
         ELSE Ok(ShortLink(sl, url))
    ELSE Err("InvalidUrl")
CreateOutcome(url, sl) ==
    IF VurlParse(url) = "Ok"
    THEN IF SlugTaken(sl)
         THEN Err("SlugAlreadyInUse")
         ELSE Ok(ShortLink(sl, url))
    ELSE Err("InvalidUrl")

\* `Ok(ShortLink { url: Url(u.clone()), slug })` of handle_redirect
RedirectLinkOfSlug(slug) == ShortLink(slug, slug)
RedirectLink(slug) == ShortLink(slug, slugs[slug])

\* ------------------------------------------------------------------------
\* Initial state: UrlShortenerService::new()
\* ------------------------------------------------------------------------

Init ==
    /\ slugs = EmptyMap
    /\ stats = EmptyMap
    /\ log = << >>
    /\ call = [op |-> "new"]
    /\ returned = [s \in AllSlugs |-> << >>]
    /\ redirected = [s \in AllSlugs |-> 0]
    /\ pc = [t \in Threads |-> "idle"]
    /\ holder = NoThread
    /\ local = [t \in Threads |-> NoCall]

\* ------------------------------------------------------------------------
\* Operations
\* ------------------------------------------------------------------------

\* CommandHandler::handle_create_short_link(url, slug); rnd7 is what the
\* random generator produces when slug is None.
handle_create_short_link(url, slug, rnd7) ==
    LET sl == ResolveSlug(slug, rnd7)
        ret == CreateOutcome(url, sl)
    IN  /\ slugs' = IF ret.tag = "Ok" THEN Insert(slugs, sl, url) ELSE slugs
        /\ returned' = IF ret.tag = "Ok"
                       THEN [returned EXCEPT ![sl] = Append(@, ret.val)]
                       ELSE returned
        /\ call' = [op |-> "create", url |-> url, slug |-> slug,
                    gen |-> Generated(slug, rnd7), sl |-> sl, ret |-> ret]
        /\ UNCHANGED << stats, log, redirected >>
        /\ UNCHANGED cvars

\* CommandHandler::handle_redirect(slug)
handle_redirect_counting_unknown(slug) ==
    /\ slug \in DOMAIN stats => stats[slug] < MaxRedirects
    /\ stats' = EntryInc(stats, slug)
    /\ IF slug \in DOMAIN slugs
       THEN /\ redirected' = [redirected EXCEPT ![slug] = @ + 1]
            /\ call' = [op |-> "redirect", slug |-> slug,
                        ret |-> Ok(RedirectLink(slug))]
       ELSE /\ call' = [op |-> "redirect", slug |-> slug,
                        ret |-> Err("SlugNotFound")]
            /\ UNCHANGED redirected
    /\ UNCHANGED << slugs, log, returned >>
    /\ UNCHANGED cvars
handle_redirect(slug) ==
    /\ slug \in DOMAIN stats => stats[slug] < MaxRedirects
    /\ IF slug \in DOMAIN slugs
       THEN /\ stats' = EntryInc(stats, slug)
            /\ redirected' = [redirected EXCEPT ![slug] = @ + 1]
            /\ call' = [op |-> "redirect", slug |-> slug,
                        ret |-> Ok(RedirectLink(slug))]
       ELSE /\ call' = [op |-> "redirect", slug |-> slug,
                        ret |-> Err("SlugNotFound")]
            /\ UNCHANGED << stats, redirected >>
    /\ UNCHANGED << slugs, log, returned >>
    /\ UNCHANGED cvars

\* QueryHandler::get_stats(slug): the body is `todo!()`, which panics.
get_stats(slug) ==
    /\ call' = [op |-> "get_stats", slug |-> slug, ret |-> Panic]
    /\ UNCHANGED << slugs, stats, log, returned, redirected >>
    /\ UNCHANGED cvars

Next ==
    \/ \E url \in Urls, slug \in OptSlugs, rnd7 \in Rnd7 :
           handle_create_short_link(url, slug, rnd7)
    \/ \E slug \in AllSlugs : handle_redirect(slug)
    \/ \E slug \in AllSlugs : get_stats(slug)

Spec == Init /\ [][Next]_vars

\* ------------------------------------------------------------------------
\* Concurrent callers of handle_create_short_link
\* ------------------------------------------------------------------------
\* The handler takes `&mut self`: a caller runs it only while it holds the
\* exclusive borrow of the service, from entry to return.  The body is
\* split into its statements so that callers could interleave between the
\* lookup and the insert if the borrow were not exclusive.

\* `&mut self`: no other caller is inside a method of the service.
ExclusiveNot(t) == TRUE
Exclusive(t) == holder = NoThread

\* Caller t invokes handle_create_short_link(url, slug) and waits for the
\* exclusive borrow.
CallCreate(t, url, slug) ==
    /\ pc[t] = "idle"
    /\ pc' = [pc EXCEPT ![t] = "waiting"]
    /\ local' = [local EXCEPT ![t] = [url |-> url, slug |-> slug]]
    /\ UNCHANGED << slugs, stats, log, call, returned, redirected, holder >>

\* Caller t enters the handler and resolves the slug (`match slug`).
EnterCreate(t, rnd7) ==
    /\ pc[t] = "waiting"
    /\ Exclusive(t)
    /\ holder' = t
    /\ pc' = [pc EXCEPT ![t] = "check"]
    /\ local' = [local EXCEPT ![t] =
                    [url |-> local[t].url,
                     sl |-> ResolveSlug(local[t].slug, rnd7)]]
    /\ UNCHANGED << slugs, stats, log, call, returned, redirected >>

\* `match Vurl::parse(&url.0)` and `match self.slugs.get(&sl.0)`
CheckCreate(t) ==
    /\ pc[t] = "check"
    /\ LET ret == CreateOutcome(local[t].url, local[t].sl)
       IN  IF ret.tag = "Ok"
           THEN /\ pc' = [pc EXCEPT ![t] = "insert"]
                /\ local' = local
           ELSE /\ pc' = [pc EXCEPT ![t] = "return"]
                /\ local' = [local EXCEPT ![t] =
                                [sl |-> local[t].sl, ret |-> ret]]
    /\ UNCHANGED << slugs, stats, log, call, returned, redirected, holder >>

\* `self.slugs.insert(sl.0.clone(), url.0.clone())`
InsertCreate(t) ==
    /\ pc[t] = "insert"
    /\ slugs' = Insert(slugs, local[t].sl, local[t].url)
    /\ pc' = [pc EXCEPT ![t] = "return"]
    /\ local' = [local EXCEPT ![t] =
                    [sl |-> local[t].sl,
                     ret |-> Ok(ShortLink(local[t].sl, local[t].url))]]
    /\ UNCHANGED << stats, log, call, returned, redirected, holder >>

\* The handler returns its result and the borrow ends.
ReturnCreate(t) ==
    /\ pc[t] = "return"
    /\ holder' = IF holder = t THEN NoThread ELSE holder
    /\ pc' = [pc EXCEPT ![t] = "idle"]
    /\ returned' = IF local[t].ret.tag = "Ok"
                   THEN [returned EXCEPT
                            ![local[t].sl] = Append(@, local[t].ret.val)]
                   ELSE returned
    /\ UNCHANGED << slugs, stats, log, call, redirected, local >>

NextConc ==
    \/ \E t \in Threads, url \in Urls, slug \in OptSlugs :
           CallCreate(t, url, slug)
    \/ \E t \in Threads, rnd7 \in Rnd7 : EnterCreate(t, rnd7)
    \/ \E t \in Threads : CheckCreate(t)
    \/ \E t \in Threads : InsertCreate(t)
    \/ \E t \in Threads : ReturnCreate(t)

SpecConc == Init /\ [][NextConc]_vars

\* ------------------------------------------------------------------------
\* Event sourcing as the module documentation describes it
\* ------------------------------------------------------------------------

LinkCreated(slug, url) == [type |-> "LinkCreated", slug |-> slug, url |-> url]

RedirectOccurred(slug) == [type |-> "RedirectOccurred", slug |-> slug]

\* One fold step of both projections: the first LinkCreated of a slug wins,
\* RedirectOccurred increments the counter of its slug.
Apply(proj, e) ==
    IF e.type = "LinkCreated"
    THEN IF e.slug \in DOMAIN proj[1]
         THEN proj
         ELSE << Insert(proj[1], e.slug, e.url), proj[2] >>
    ELSE << proj[1], EntryInc(proj[2], e.slug) >>

\* Replay: fold the whole log, in order, from empty projections.
RECURSIVE Rebuild(_)
Rebuild(events) ==
    IF events = << >>
    THEN << EmptyMap, EmptyMap >>
    ELSE Apply(Rebuild(SubSeq(events, 1, Len(events) - 1)),
               events[Len(events)])

\* ------------------------------------------------------------------------
\* Properties
\* ------------------------------------------------------------------------

Created(s) == returned[s] # << >>

\* C1 -- Uniqueness: over every sequence of create_short_link calls (slug
\* supplied or generated, any URL), no slug is returned by two successful
\* calls.
C1_Uniqueness ==
    \A s \in AllSlugs : Len(returned[s]) <= 1

\* Two slugs have been created, and a further creation with a taken slug
\* has just been refused.
C1_Witness ==
    /\ Cardinality({s \in AllSlugs : Len(returned[s]) = 1}) >= 2
    /\ call.op = "create"
    /\ call.ret = Err("SlugAlreadyInUse")

\* C2 -- create_short_link(url, Some(slug)) with a valid URL and a slug not
\* yet registered returns Ok(ShortLink{slug, url}) with exactly the supplied
\* slug and URL, and afterwards the registry maps that slug to that URL.
C2_CreateDefinedSlug ==
    [][ ( /\ call'.op = "create"
          /\ call'.slug # None
          /\ VurlParse(call'.url) = "Ok"
          /\ call'.slug[1] \notin DOMAIN slugs )
        => ( /\ call'.ret = Ok(ShortLink(call'.slug[1], call'.url))
             /\ call'.slug[1] \in DOMAIN slugs'
             /\ slugs'[call'.slug[1]] = call'.url ) ]_vars

\* A creation with a supplied slug has just succeeded, while another slug
\* was already registered.
C2_Witness ==
    /\ call.op = "create"
    /\ call.slug # None
    /\ call.ret = Ok(ShortLink(call.slug[1], call.url))
    /\ slugs[call.slug[1]] = call.url
    /\ Cardinality(DOMAIN slugs) >= 2

\* C3 -- create_short_link with a valid URL and a slug that is already
\* registered fails with SlugAlreadyInUse whatever the URL, and changes
\* nothing: the slug keeps the URL of its first successful creation, the
\* counters are unchanged and nothing is appended to the log.
C3_SlugAlreadyInUse ==
    [][ ( /\ call'.op = "create"
          /\ VurlParse(call'.url) = "Ok"
          /\ call'.sl \in DOMAIN slugs )
        => ( /\ call'.ret = Err("SlugAlreadyInUse")
             /\ slugs' = slugs
             /\ stats' = stats
             /\ log' = log
             /\ Created(call'.sl)
             /\ slugs'[call'.sl] = returned[call'.sl][1].url ) ]_vars

\* A creation with another valid URL for a registered and already
\* redirected slug has just been refused.
C3_Witness ==
    /\ call.op = "create"
    /\ call.ret = Err("SlugAlreadyInUse")
    /\ call.sl \in DOMAIN slugs
    /\ call.url # slugs[call.sl]
    /\ call.sl \in DOMAIN stats

\* C4 -- create_short_link with a URL that does not parse fails with
\* InvalidUrl and changes neither registry, counters nor log; a later
\* redirect or get_stats on the slug asked for returns SlugNotFound if that
\* slug was unregistered.
C4_InvalidUrl ==
    [][ /\ ( ( /\ call'.op = "create"
               /\ VurlParse(call'.url) = "Err" )
             => ( /\ call'.ret = Err("InvalidUrl")
                  /\ slugs' = slugs
                  /\ stats' = stats
                  /\ log' = log ) )
        /\ ( ( /\ call.op = "create"
               /\ call.ret = Err("InvalidUrl")
               /\ call.sl \notin DOMAIN slugs
               /\ call'.op \in {"redirect", "get_stats"}
               /\ call'.slug = call.sl )
             => call'.ret = Err("SlugNotFound") ) ]_vars

\* C5 -- redirect(slug) on a slug registered by an earlier successful
\* create_short_link returns Ok with the ShortLink that creation returned,
\* however many redirects of the slug happened before.
C5_RedirectReturnsCreatedLink ==
    [][ ( /\ call'.op = "redirect"
          /\ Created(call'.slug) )
        => call'.ret = Ok(returned[call'.slug][1]) ]_vars

\* A generated slug has been redirected more than once and the latest
\* redirect returned the link of its creation.
C5_Witness ==
    /\ call.op = "redirect"
    /\ call.slug \in Rnd7 \ UserSlugs
    /\ Created(call.slug)
    /\ redirected[call.slug] >= 2
    /\ call.ret = Ok(returned[call.slug][1])

\* C6 -- after a slug has been created and redirected successfully N >= 1
\* times, get_stats(slug) returns Ok(Stats) with redirects = N and the
\* created ShortLink.
C6_StatsAfterRedirects ==
    ( /\ call.op = "get_stats"
      /\ Created(call.slug)
      /\ redirected[call.slug] >= 1 )
    => call.ret = Ok(Stats(returned[call.slug][1], redirected[call.slug]))

\* C7 -- redirect(slug) and get_stats(slug) on a slug that was never
\* created both return SlugNotFound and change neither registry, counters
\* nor log.
C7_UnknownSlug ==
    [][ ( /\ call'.op \in {"redirect", "get_stats"}
          /\ ~ Created(call'.slug) )
        => ( /\ call'.ret = Err("SlugNotFound")
             /\ slugs' = slugs
             /\ stats' = stats
             /\ log' = log ) ]_vars

\* C8 -- Replay equivalence: the registry and the counters the service
\* holds equal the projections folded from its event log from empty state.
C8_ReplayEquivalence ==
    Rebuild(log) = << slugs, stats >>

\* C9 -- every successful create_short_link appends exactly one
\* LinkCreated{slug, url}, every successful redirect exactly one
\* RedirectOccurred{slug}; failed calls and get_stats append nothing, and
\* the log only ever grows at its end.
C9_EventsAppended ==
    [][ /\ ( (call'.op = "create" /\ call'.ret.tag = "Ok")
             => log' = Append(log, LinkCreated(call'.sl, call'.url)) )
        /\ ( (call'.op = "redirect" /\ call'.ret.tag = "Ok")
             => log' = Append(log, RedirectOccurred(call'.slug)) )
        /\ ( (call'.op = "get_stats" \/ call'.ret.tag # "Ok")
             => log' = log )
        /\ ( Len(log') >= Len(log) /\ SubSeq(log', 1, Len(log)) = log ) ]_vars

\* C10 -- Idempotent lookup: get_stats(slug) returns a result without
\* changing registry, counters or log, and a get_stats(slug) that directly
\* follows a get_stats(slug) returns the same result.
C10_IdempotentLookup ==
    [][ call'.op = "get_stats"
        => ( /\ call'.ret.tag \in {"Ok", "Err"}
             /\ slugs' = slugs
             /\ stats' = stats
             /\ log' = log
             /\ ( (call.op = "get_stats" /\ call.slug = call'.slug)
                  => call'.ret = call.ret ) ) ]_vars

\* The redirect count of a slug: its counter, 0 when it has none.
Count(m, s) == IF s \in DOMAIN m THEN m[s] ELSE 0

\* C11 -- get_stats(slug) on a slug that was created but never redirected
\* returns Ok(Stats) with the slug's ShortLink and redirects = 0.
C11_StatsNeverRedirected ==
    ( /\ call.op = "get_stats"
      /\ Created(call.slug)
      /\ redirected[call.slug] = 0 )
    => call.ret = Ok(Stats(returned[call.slug][1], 0))

\* C13 -- Error precedence: a create_short_link with a URL that does not
\* parse and a slug that is already registered fails with InvalidUrl, not
\* with SlugAlreadyInUse.
C13_InvalidUrlFirst ==
    [][ ( /\ call'.op = "create"
          /\ VurlParse(call'.url) = "Err"
          /\ call'.sl \in DOMAIN slugs )
        => call'.ret = Err("InvalidUrl") ]_vars

\* A creation with an unparseable URL and a registered slug has just
\* returned InvalidUrl.
C13_Witness ==
    /\ call.op = "create"
    /\ VurlParse(call.url) = "Err"
    /\ call.sl \in DOMAIN slugs
    /\ call.ret = Err("InvalidUrl")

\* C14 -- create_short_link without a slug and with a valid URL, when the
\* generator produces a slug that is already registered, fails with
\* SlugAlreadyInUse: the generated candidate is the slug checked (no second
\* generation) and registry, counters and log are unchanged.
C14_GeneratedCollision ==
    [][ ( /\ call'.op = "create"
          /\ call'.slug = None
          /\ VurlParse(call'.url) = "Ok"
          /\ call'.gen[1] \in DOMAIN slugs )
        => ( /\ call'.sl = call'.gen[1]
             /\ call'.ret = Err("SlugAlreadyInUse")
             /\ slugs' = slugs
             /\ stats' = stats
             /\ log' = log ) ]_vars

\* A creation without a slug has just been refused because the generated
\* slug was registered, while another generator output was still free.
C14_Witness ==
    /\ call.op = "create"
    /\ call.slug = None
    /\ call.gen[1] \in DOMAIN slugs
    /\ call.ret = Err("SlugAlreadyInUse")
    /\ Rnd7 \ DOMAIN slugs # {}

\* C15 -- a successful redirect(slug) raises the counter of that slug by
\* exactly one (from absent to 1 the first time) and leaves every other
\* counter and the registry unchanged; a successful create_short_link
\* leaves every counter unchanged.
C15_RedirectCountsOne ==
    [][ /\ ( (call'.op = "redirect" /\ call'.ret.tag = "Ok")
             => ( /\ call'.slug \in DOMAIN stats'
                  /\ stats'[call'.slug] = Count(stats, call'.slug) + 1
                  /\ DOMAIN stats' = DOMAIN stats \cup {call'.slug}
                  /\ \A o \in DOMAIN stats \ {call'.slug} :
                         stats'[o] = stats[o]
                  /\ slugs' = slugs ) )
        /\ ( (call'.op = "create" /\ call'.ret.tag = "Ok")
             => stats' = stats ) ]_vars

\* A slug has just had its first redirect while another slug already has
\* a counter.
C15_Witness ==
    /\ call.op = "redirect"
    /\ call.ret.tag = "Ok"
    /\ stats[call.slug] = 1
    /\ \E o \in DOMAIN stats : o # call.slug /\ stats[o] >= 1

\* C16 -- Counter monotonicity: in no step (successful or failed
\* create_short_link, redirect, get_stats) does the redirect count of any
\* slug decrease.
C16_CountersMonotonic ==
    [][ \A s \in AllSlugs : Count(stats', s) >= Count(stats, s) ]_vars

\* Two slugs have been redirected, one of them more than once, and a call
\* that is not a redirect has followed.
C16_Witness ==
    /\ call.op # "redirect"
    /\ \E s, o \in DOMAIN stats : s # o /\ stats[s] >= 2 /\ stats[o] >= 1

\* C17 -- URLs carry no uniqueness constraint: a create_short_link with a
\* valid URL that another slug already maps to succeeds whenever its own
\* slug is unregistered, and then both slugs map to that URL.
C17_SharedUrl ==
    [][ \A o \in DOMAIN slugs :
          ( /\ call'.op = "create"
            /\ VurlParse(call'.url) = "Ok"
            /\ slugs[o] = call'.url
            /\ call'.sl \notin DOMAIN slugs )
          => ( /\ call'.ret = Ok(ShortLink(call'.sl, call'.url))
               /\ slugs'[call'.sl] = call'.url
               /\ slugs'[o] = call'.url ) ]_vars

\* A creation has just succeeded with a URL that another slug maps to.
C17_Witness ==
    /\ call.op = "create"
    /\ call.ret.tag = "Ok"
    /\ \E o \in DOMAIN slugs : o # call.sl /\ slugs[o] = slugs[call.sl]

\* C18 -- in every reachable state every slug with a counter entry is a key
\* of the registry, and every counter entry is at least 1.
C18_CountersOfRegisteredSlugs ==
    /\ DOMAIN stats \subseteq DOMAIN slugs
    /\ \A s \in DOMAIN stats : stats[s] >= 1

\* A redirect of an unknown slug has just failed while another slug has a
\* counter.
C18_Witness ==
    /\ call.op = "redirect"
    /\ call.ret = Err("SlugNotFound")
    /\ call.slug \notin DOMAIN stats
    /\ DOMAIN stats # {}

\* C19 -- once a slug is registered, no later call removes its registry
\* entry or changes its URL: it keeps mapping to the URL of its first
\* successful creation.
C19_RegistryStable ==
    [][ \A s \in DOMAIN slugs :
          /\ s \in DOMAIN slugs'
          /\ slugs'[s] = slugs[s]
          /\ slugs'[s] = returned[s][1].url ]_vars

\* A second slug has just been created while the first one, already
\* redirected, still maps to the URL of its creation.
C19_Witness ==
    /\ call.op = "create"
    /\ call.ret.tag = "Ok"
    /\ \E s \in DOMAIN stats :
          /\ s # call.sl
          /\ slugs[s] = returned[s][1].url
          /\ slugs[s] # call.url

\* A caller whose lookup found its slug free: it is about to insert, or has
\* inserted and is about to return Ok.
PassedCheck(t) ==
    \/ pc[t] = "insert"
    \/ (pc[t] = "return" /\ local[t].ret.tag = "Ok")

\* C12 -- under concurrent callers the uniqueness check and the
\* registration of create_short_link act as one atomic step: no two callers
\* have both passed the check for the same slug, no slug is returned by two
\* successful calls, and a caller that finds the slug registered gets
\* SlugAlreadyInUse.
C12_AtomicCheckAndRegister ==
    /\ \A t1, t2 \in Threads :
          (t1 # t2 /\ PassedCheck(t1) /\ PassedCheck(t2))
          => local[t1].sl # local[t2].sl
    /\ \A s \in AllSlugs : Len(returned[s]) <= 1
    /\ \A t \in Threads :
          (pc[t] = "return" /\ local[t].ret.tag = "Ok")
          => returned[local[t].sl] = << >>
    /\ \A t \in Threads :
          (pc[t] = "return" /\ local[t].ret = Err("SlugAlreadyInUse"))
          => local[t].sl \in DOMAIN slugs

\* One caller has registered a slug and is about to return Ok while
\* another caller is waiting with a valid URL for the same slug.
C12_Witness ==
    \E t1, t2 \in Threads :
        /\ t1 # t2
        /\ pc[t1] = "return"
        /\ local[t1].ret.tag = "Ok"
        /\ pc[t2] = "waiting"
        /\ local[t2].slug = Some(local[t1].sl)
        /\ VurlParse(local[t2].url) = "Ok"

====
